---- MODULE Spec2Model ----
(***************************************************************************)
(* A model of sw4: the `start`/`update` entry points generated by the      *)
(* sw4_macros attributes, and the packed views and host-call shims of the  *)
(* sw4 crate (DrawColors, FrameBuffer, SoundSystem, Color).                *)
(*                                                                         *)
(* The lifecycle is checked under SpecLife.  Each shim or packed view is   *)
(* checked under a specification of its own, whose Init draws the inputs   *)
(* of the call and whose action applies the code to them.  A variable a    *)
(* specification does not use is held at NotModelled.                      *)
(***************************************************************************)
EXTENDS Integers, Sequences, FiniteSets

VARIABLES
    guard,            \* the byte at address 1
    SW4_USER_STATE,   \* the static MaybeUninit cell: [init, val]
    draw_colors,      \* Wasm4.draw_colors, the u16 at address 0x14
    buf,              \* Wasm4.frame_buffer.buf, 6400 bytes
    pc,               \* where the running entry point or shim stands
    tmp,              \* start: the value user setup returned, not yet stored
    log,              \* instrumentation: one record per run of user logic
    starts,           \* instrumentation: calls of start made by the host
    updates,          \* instrumentation: calls of update made by the host
    borrows,          \* instrumentation: borrows taken of SW4_USER_STATE
    ub,               \* instrumentation: an uninitialised cell was read
    host,             \* the calls made to imported host functions, in order
    halted,           \* the program hit wasm32::unreachable
    overflow_checks,  \* the build checks integer overflow (debug profile)
    args,             \* the arguments of the call under study
    prior,            \* the content the call found
    ret               \* what the call returned

vars == <<guard, SW4_USER_STATE, draw_colors, buf, pc, tmp, log, starts,
          updates, borrows, ub, host, halted, overflow_checks, args, prior,
          ret>>

lifeVars == <<guard, SW4_USER_STATE, tmp, log, starts, updates, borrows, ub>>

NotModelled == <<>>

-----------------------------------------------------------------------------
(* Bounds of the model *)

MaxStarts == 2
MaxUpdates == 3

-----------------------------------------------------------------------------
(* Rust's operators on unsigned integers *)

RECURSIVE BitAnd(_, _)
BitAnd(a, b) ==
    IF a = 0 \/ b = 0 THEN 0
    ELSE (a % 2) * (b % 2) + 2 * BitAnd(a \div 2, b \div 2)

RECURSIVE BitOr(_, _)
BitOr(a, b) ==
    IF a = 0 THEN b
    ELSE IF b = 0 THEN a
    ELSE (IF a % 2 = 1 \/ b % 2 = 1 THEN 1 ELSE 0)
         + 2 * BitOr(a \div 2, b \div 2)

\* !a on a u8
Not8(a) == 255 - a

\* a << s on a u8, s < 8: the bits shifted past bit 7 are lost
Shl8(a, s) == (a * (2 ^ s)) % 256

\* a << s on a u16, s < 16
Shl16(a, s) == (a * (2 ^ s)) % 65536

\* A u32 is the pair <<high 16 bits, low 16 bits>>, so that no intermediate
\* value leaves the range of the checker's integers.
U32(n) == <<n \div 65536, n % 65536>>

LeU32(a, b) == a[1] < b[1] \/ (a[1] = b[1] /\ a[2] <= b[2])

\* a + b on u32: the wrapped sum, and whether it overflowed
AddU32(a, b) ==
    LET lo == a[2] + b[2]
        hi == a[1] + b[1] + (lo \div 65536)
    IN  [v |-> <<hi % 65536, lo % 65536>>, of |-> hi >= 65536]

\* the 32-bit product <<high, low>> of two 16-bit numbers
Mul16(a, b) ==
    LET p0  == a * (b % 256)
        p1  == a * (b \div 256)
        low == p0 + (p1 % 256) * 256
    IN  <<(low \div 65536) + (p1 \div 256), low % 65536>>

\* a * b on u32: the wrapped product, and whether it overflowed
MulU32(a, b) ==
    LET ll  == Mul16(a[2], b[2])
        hl  == Mul16(a[1], b[2])
        lh  == Mul16(a[2], b[1])
        hh  == Mul16(a[1], b[1])
        mid == ll[1] + hl[2] + lh[2]
    IN  [v  |-> <<mid % 65536, ll[2]>>,
         of |-> (mid \div 65536) + hl[1] + lh[1] + hh[1] + hh[2] > 0]

\* u32::to_le_bytes and u32::from_le_bytes
to_le_bytes(x) == <<x[2] % 256, x[2] \div 256, x[1] % 256, x[1] \div 256>>

from_le_bytes(b) == <<b[3] + 256 * b[4], b[1] + 256 * b[2]>>

-----------------------------------------------------------------------------
(* The State Image *)

SCREEN == 160
ROW_BYTES == 40
BUF_LEN == 6400

\* DrawColor::A
ColorA == 1

\* the byte at address 0x14: the low byte of the little-endian draw_colors
DrawColorsByte(dc) == dc % 256

\* DrawColors::set_all: the new value of self.0
set_all(c1, c2, c3, c4) ==
    BitOr(BitOr(c1, Shl16(c2, 4)), BitOr(Shl16(c3, 8), Shl16(c4, 12)))

\* DrawColors::set_1 .. set_4: the new value of self.0
set_1(dc, color) == BitOr(BitAnd(dc, 65520), color)
set_2_WideMask(dc, color) == BitOr(BitAnd(dc, 65280), Shl16(color, 4))
set_2(dc, color) == BitOr(BitAnd(dc, 65295), Shl16(color, 4))
set_3(dc, color) == BitOr(BitAnd(dc, 61695), Shl16(color, 8))
set_4(dc, color) == BitOr(BitAnd(dc, 4095), Shl16(color, 12))

\* FrameBuffer::pixel: the new content of self.buf
pixel(b, dc, x, y) ==
    LET color0 == BitAnd(DrawColorsByte(dc), 15)
        color  == BitAnd(color0 - 1, 3)
        idx    == (y * ROW_BYTES) + (x \div 4)
        shift  == Shl8(BitAnd(x % 256, 3), 1)
        mask   == Not8(Shl8(3, shift))
    IN  IF color0 = 0 THEN b
        ELSE [b EXCEPT ![idx] =
                 BitOr(Shl8(color, shift), BitAnd(b[idx], Not8(mask)))]

ZeroBuf == [i \in 0 .. (BUF_LEN - 1) |-> 0]

-----------------------------------------------------------------------------
(* The lifecycle: the entry points `start` and `update` *)

\* What the user's functions do with their borrows.  The setup function
\* returns some value and may select a draw color; the cycle function
\* increments the user state, draws a pixel and increments, or selects a
\* draw color and keeps the user state.
CycleOps == {"inc", "draw", "select"}

\* the values the user's setup function may return
SetupValues == {0, 1}

UserCycleState(op, s) == IF op = "select" THEN s ELSE s + 1

UserCycleDrawColors(op, dc) == IF op = "select" THEN set_1(dc, ColorA) ELSE dc

UserCycleBuf(op, b, dc) == IF op = "draw" THEN pixel(b, dc, 10, 10) ELSE b

\* update: `*(1 as *mut u8) != 1`, negated
GuardSet_Unchecked == TRUE
GuardSet == guard = 1

InitLife ==
    /\ guard = 0
    /\ SW4_USER_STATE = [init |-> FALSE, val |-> 0]
    /\ draw_colors = 4611   \* 0x1203, as the host sets it before start
    /\ buf = ZeroBuf
    /\ pc = "idle"
    /\ tmp = 0
    /\ log = <<>>
    /\ starts = 0
    /\ updates = 0
    /\ borrows = 0
    /\ ub = FALSE
    /\ host = NotModelled
    /\ halted = FALSE
    /\ overflow_checks = NotModelled
    /\ args = NotModelled
    /\ prior = NotModelled
    /\ ret = NotModelled

\* start, up to the return of the user's setup function
StartCall ==
    /\ pc = "idle"
    /\ starts < MaxStarts
    /\ \E v \in SetupValues, select \in BOOLEAN :
          /\ tmp' = v
          /\ draw_colors' = IF select THEN set_1(draw_colors, ColorA)
                            ELSE draw_colors
          /\ log' = Append(log, [fn |-> "setup", op |-> "setup",
                                 handed |-> v, left |-> v])
    /\ starts' = starts + 1
    /\ pc' = "start_store"
    /\ UNCHANGED <<guard, SW4_USER_STATE, buf, updates, borrows, ub, host,
                   halted, overflow_checks, args, prior, ret>>

\* start: SW4_USER_STATE.get().cast().write(..)
StartStore_GuardFirst ==
    /\ pc = "start_store"
    /\ guard' = 1
    /\ pc' = "start_guard"
    /\ UNCHANGED <<SW4_USER_STATE, draw_colors, buf, tmp, log, starts,
                   updates, borrows, ub, host, halted, overflow_checks, args,
                   prior, ret>>

StartStore ==
    /\ pc = "start_store"
    /\ SW4_USER_STATE' = [init |-> TRUE, val |-> tmp]
    /\ pc' = "start_guard"
    /\ UNCHANGED <<guard, draw_colors, buf, tmp, log, starts, updates,
                   borrows, ub, host, halted, overflow_checks, args, prior,
                   ret>>

\* start: (1 as *mut u8).write(1), and the return
StartGuard ==
    /\ pc = "start_guard"
    /\ guard' = 1
    /\ pc' = "idle"
    /\ UNCHANGED <<SW4_USER_STATE, draw_colors, buf, tmp, log, starts,
                   updates, borrows, ub, host, halted, overflow_checks, args,
                   prior, ret>>

\* update, found not ready: the early return
UpdateNotReady ==
    /\ pc = "idle"
    /\ updates < MaxUpdates
    /\ ~GuardSet
    /\ updates' = updates + 1
    /\ UNCHANGED <<guard, SW4_USER_STATE, draw_colors, buf, pc, tmp, log,
                   starts, borrows, ub, host, halted, overflow_checks, args,
                   prior, ret>>

\* update, the user's cycle function working on a copy of the user state
UpdateCycle_Copy ==
    /\ pc = "idle"
    /\ updates < MaxUpdates
    /\ GuardSet
    /\ updates' = updates + 1
    /\ borrows' = borrows + 1
    /\ ub' = (ub \/ ~SW4_USER_STATE.init)
    /\ \E op \in CycleOps :
       \E s \in (IF SW4_USER_STATE.init THEN {SW4_USER_STATE.val}
                 ELSE SetupValues) :
          /\ log' = Append(log, [fn |-> "cycle", op |-> op, handed |-> s,
                                 left |-> UserCycleState(op, s)])
          /\ draw_colors' = UserCycleDrawColors(op, draw_colors)
          /\ buf' = UserCycleBuf(op, buf, draw_colors)
    /\ UNCHANGED <<guard, SW4_USER_STATE, pc, tmp, starts, host, halted,
                   overflow_checks, args, prior, ret>>

\* update, ready: the user's cycle function runs on the two borrows.  Reading
\* a cell never written is undefined: it may yield any value.
UpdateCycle ==
    /\ pc = "idle"
    /\ updates < MaxUpdates
    /\ GuardSet
    /\ updates' = updates + 1
    /\ borrows' = borrows + 1
    /\ ub' = (ub \/ ~SW4_USER_STATE.init)
    /\ \E op \in CycleOps :
       \E s \in (IF SW4_USER_STATE.init THEN {SW4_USER_STATE.val}
                 ELSE SetupValues) :
          /\ log' = Append(log, [fn |-> "cycle", op |-> op, handed |-> s,
                                 left |-> UserCycleState(op, s)])
          /\ SW4_USER_STATE' = [init |-> TRUE, val |-> UserCycleState(op, s)]
          /\ draw_colors' = UserCycleDrawColors(op, draw_colors)
          /\ buf' = UserCycleBuf(op, buf, draw_colors)
    /\ UNCHANGED <<guard, pc, tmp, starts, host, halted, overflow_checks,
                   args, prior, ret>>

\* The lifecycle's variables, in a specification that has no lifecycle
NoLife ==
    /\ guard = NotModelled
    /\ SW4_USER_STATE = NotModelled
    /\ tmp = NotModelled
    /\ log = NotModelled
    /\ starts = NotModelled
    /\ updates = NotModelled
    /\ borrows = NotModelled
    /\ ub = NotModelled

NextLife ==
    \/ StartCall
    \/ StartStore
    \/ StartGuard
    \/ UpdateNotReady
    \/ UpdateCycle

SpecLife == InitLife /\ [][NextLife]_vars

-----------------------------------------------------------------------------
(* The lifecycle's claims *)

CycleRuns == {k \in 1 .. Len(log) : log[k].fn = "cycle"}

\* C1: while the guard byte is not 1, update returns at once: no run of the
\* user's cycle function and no borrow or read of the user-state storage has
\* happened, and a call of update changes neither the State Image, the
\* user-state storage nor the guard byte.
C1_UpdateBeforeStartIsNoop ==
    /\ [](guard # 1 => (CycleRuns = {} /\ borrows = 0 /\ ~ub))
    /\ [][(guard # 1 /\ updates' = updates + 1) =>
             /\ log' = log
             /\ borrows' = borrows
             /\ SW4_USER_STATE' = SW4_USER_STATE
             /\ draw_colors' = draw_colors
             /\ buf' = buf
             /\ guard' = guard]_vars

C1_Witness ==
    /\ updates >= 2
    /\ starts = 0
    /\ guard # 1
    /\ log = <<>>

\* C2: the guard byte is 1 only if the user-state storage holds a value that
\* user setup returned: start stores the value before it writes the guard,
\* the guard is the last write of start, and the guard is 1 once start has
\* returned.
C2_GuardImpliesStored ==
    /\ guard = 1 => SW4_USER_STATE.init
    /\ pc = "start_guard" => SW4_USER_STATE = [init |-> TRUE, val |-> tmp]
    /\ (pc = "start_store" /\ starts = 1) => guard # 1
    /\ (pc = "start_guard" /\ starts = 1) => guard # 1
    /\ (pc = "idle" /\ starts >= 1) => guard = 1

C2_Witness ==
    /\ pc = "start_guard"
    /\ starts = 1
    /\ guard # 1
    /\ SW4_USER_STATE.init
    /\ SW4_USER_STATE.val = tmp

\* C5: after one start, each run of the user's cycle function is handed the
\* user state as the run before it left it (the first, as setup returned
\* it), and the stored user state is what the last run left; with setup
\* returning 0 and two incrementing cycles the stored state is 2.
C5_StateCarriedAcrossCycles ==
    starts = 1 =>
        /\ \A k \in 2 .. Len(log) :
              /\ log[k].fn = "cycle"
              /\ log[k].handed = log[k - 1].left
        /\ (pc = "idle" /\ Len(log) >= 1) =>
              SW4_USER_STATE.val = log[Len(log)].left
        /\ ( /\ pc = "idle"
             /\ Len(log) = 3
             /\ log[1].left = 0
             /\ \A k \in 2 .. 3 : log[k].op \in {"inc", "draw"} ) =>
              SW4_USER_STATE.val = 2

C5_Witness ==
    /\ starts = 1
    /\ pc = "idle"
    /\ Len(log) = 3
    /\ log[1].left = 0
    /\ log[2].op = "inc"
    /\ log[3].op = "draw"
    /\ log[3].handed = 1
    /\ SW4_USER_STATE.val = 2

-----------------------------------------------------------------------------
(* FrameBuffer::pixel on a buffer the host has drawn to *)

PixelXs == {0, 1, 2, 3, 10, SCREEN - 1}
PixelYs == {0, 10, SCREEN - 1}
PixelSelectors == {0, 1, 2, 3, 4, 15}

\* The contents a byte may hold before the call: every combination of the
\* pixel values 0 and 3, and bytes in which each pixel position holds 1 or 2.
PriorBytes ==
    {a + 4 * b + 16 * c + 64 * d : a, b, c, d \in {0, 3}}
        \cup {27, 228, 85, 170, 102, 153}

\* The host owns the buffer: the call may find any content in it.  Every
\* byte holds the same value here.
InitPixel ==
    /\ NoLife
    /\ \E fill \in PriorBytes : buf = [i \in 0 .. (BUF_LEN - 1) |-> fill]
    /\ draw_colors \in {s + 16 * 291 : s \in PixelSelectors}
    /\ args \in [x : PixelXs, y : PixelYs]
    /\ prior = buf
    /\ pc = "call"
    /\ host = NotModelled
    /\ halted = FALSE
    /\ overflow_checks = NotModelled
    /\ ret = NotModelled

Pixel ==
    /\ pc = "call"
    /\ buf' = pixel(buf, draw_colors, args.x, args.y)
    /\ pc' = "done"
    /\ UNCHANGED <<lifeVars, draw_colors, host, halted, overflow_checks,
                   args, prior, ret>>

NextPixel == Pixel

SpecPixel == InitPixel /\ [][NextPixel]_vars

\* the 2-bit value of pixel p (0..3) of a byte
PixelField(byte, p) == (byte \div (4 ^ p)) % 4

\* the selector of draw-color slot k (1..4)
Slot(dc, k) == (dc \div (16 ^ (k - 1))) % 16

\* C3: with a non-transparent selector in slot 1, pixel(x, y) leaves the other
\* three pixels of byte y*40 + x/4 as they were.
C3_SiblingPixelsPreserved ==
    (pc = "done" /\ Slot(draw_colors, 1) # 0) =>
        LET idx == args.y * 40 + (args.x \div 4)
        IN  \A p \in (0 .. 3) \ {args.x % 4} :
               PixelField(buf[idx], p) = PixelField(prior[idx], p)

\* C4: with selector v in 1..4 in slot 1, after pixel(x, y) the 2-bit field
\* of byte y*40 + x/4 at shift (x%4)*2 is (v - 1) masked to 2 bits.
C4_TargetPixelReplaced ==
    (pc = "done" /\ Slot(draw_colors, 1) \in 1 .. 4) =>
        LET idx == args.y * 40 + (args.x \div 4)
        IN  PixelField(buf[idx], args.x % 4) = (Slot(draw_colors, 1) - 1) % 4

-----------------------------------------------------------------------------
(* FrameBuffer::sprite and FrameBuffer::sub_sprite *)

MaxDim == 3
MaxSpriteLen == 2

\* Sizes and offsets: the small ones, and one whose square is 2^32
Dims == (0 .. MaxDim) \cup {65536}
SpriteFlagBits == {0, 1, 10, 15}

trace(s) == [fn |-> "traceUtf8", msg |-> s]

\* panic: the message is traced, then wasm32::unreachable halts the program
panic(s) == [host |-> <<trace(s)>>, halted |-> TRUE]

\* the panic_handler, reached by an overflow in a build that checks for it
panic_handler == panic("panicked via core")

\* sprite.len() * ((((!flags.0 & 1) + 1) * 4) as usize), usize being 32 bits
SpriteCapacity(a) ==
    MulU32(U32(a.len), U32(((1 - (a.flags % 2)) + 1) * 4))

\* sprite's (width * height) as usize
SpriteRequired(a) == MulU32(U32(a.width), U32(a.height))

\* sub_sprite's ((width + src_x) + ((height + src_y) * stride)) as usize
SubSpriteRequired_AsSprite(a) == MulU32(U32(a.width), U32(a.height))

SubSpriteRequired(a) ==
    LET wx  == AddU32(U32(a.width), U32(a.src_x))
        hy  == AddU32(U32(a.height), U32(a.src_y))
        hys == MulU32(hy.v, U32(a.stride))
        sum == AddU32(wx.v, hys.v)
    IN  [v |-> sum.v, of |-> wx.of \/ hy.of \/ hys.of \/ sum.of]

\* the body of sprite: what it calls, and whether the program halts
sprite(a, checks) ==
    LET need == SpriteRequired(a)
        cap  == SpriteCapacity(a)
    IN  IF checks /\ (need.of \/ cap.of) THEN panic_handler
        ELSE IF ~LeU32(need.v, cap.v) THEN panic("not enough sprite data")
        ELSE [host |-> <<[fn |-> "blit", width |-> a.width,
                          height |-> a.height, flags |-> a.flags]>>,
              halted |-> FALSE]

\* the body of sub_sprite
sub_sprite(a, checks) ==
    LET need == SubSpriteRequired(a)
        cap  == SpriteCapacity(a)
    IN  IF checks /\ (need.of \/ cap.of) THEN panic_handler
        ELSE IF ~LeU32(need.v, cap.v) THEN panic("not enough sprite data")
        ELSE [host |-> <<[fn |-> "blitSub", width |-> a.width,
                          height |-> a.height, src_x |-> a.src_x,
                          src_y |-> a.src_y, stride |-> a.stride,
                          flags |-> a.flags]>>,
              halted |-> FALSE]

SpriteArgs ==
    [fn : {"sprite"}, len : 0 .. MaxSpriteLen, width : Dims, height : Dims,
     src_x : {0}, src_y : {0}, stride : {0}, flags : SpriteFlagBits]
    \cup
    [fn : {"sub_sprite"}, len : 0 .. MaxSpriteLen, width : Dims,
     height : Dims, src_x : {0, 1}, src_y : {0, 1}, stride : Dims,
     flags : {0, 1}]

InitSprite ==
    /\ NoLife
    /\ draw_colors = NotModelled
    /\ buf = NotModelled
    /\ args \in SpriteArgs
    /\ overflow_checks \in BOOLEAN
    /\ host = <<>>
    /\ halted = FALSE
    /\ pc = "call"
    /\ prior = NotModelled
    /\ ret = NotModelled

Sprite ==
    /\ pc = "call"
    /\ args.fn = "sprite"
    /\ host' = sprite(args, overflow_checks).host
    /\ halted' = sprite(args, overflow_checks).halted
    /\ pc' = "done"
    /\ UNCHANGED <<lifeVars, draw_colors, buf, overflow_checks, args, prior,
                   ret>>

SubSprite ==
    /\ pc = "call"
    /\ args.fn = "sub_sprite"
    /\ host' = sub_sprite(args, overflow_checks).host
    /\ halted' = sub_sprite(args, overflow_checks).halted
    /\ pc' = "done"
    /\ UNCHANGED <<lifeVars, draw_colors, buf, overflow_checks, args, prior,
                   ret>>

NextSprite ==
    \/ Sprite
    \/ SubSprite

SpecSprite == InitSprite /\ [][NextSprite]_vars

\* the pixels the data holds: 8 a byte at 1 bit per pixel, 4 a byte at 2
PixelsHeld == args.len * (IF args.flags % 2 = 0 THEN 8 ELSE 4)

\* the data holds fewer than width * height pixels (the product is formed
\* only where both factors are small)
TooFewPixels ==
    /\ args.width > 0
    /\ args.height > 0
    /\ \/ args.width > PixelsHeld
       \/ args.height > PixelsHeld
       \/ args.width * args.height > PixelsHeld

Called(f) == \E k \in 1 .. Len(host) : host[k].fn = f

\* C6: a call of sprite whose data holds fewer than width * height pixels
\* traces a message, then halts, and never calls blit.
C6_SpriteShortDataAborts ==
    (pc = "done" /\ args.fn = "sprite" /\ TooFewPixels) =>
        /\ Len(host) = 1
        /\ host[1].fn = "traceUtf8"
        /\ halted
        /\ ~Called("blit")

\* C7 as claimed: sub_sprite calls blitSub exactly when the data holds at
\* least width * height pixels, and aborts otherwise.
C7_SubSpriteSameCheckAsSprite ==
    (pc = "done" /\ args.fn = "sub_sprite") =>
        /\ Called("blitSub") <=> ~TooFewPixels
        /\ ~Called("blitSub") => halted

\* the arguments are small enough for no step of the evaluation to overflow
SmallArgs ==
    \A n \in {args.width, args.height, args.src_x, args.src_y, args.stride} :
        n <= 255

\* C7 as amended: sub_sprite's check is its own, and counts the source
\* offset and the stride.  It calls blitSub exactly when
\* (width + src_x) + ((height + src_y) * stride), evaluated on u32, is at most
\* the pixels the data holds; an evaluation that overflows wraps in a build
\* without overflow checks and aborts in a build with them.  It aborts
\* whenever it does not call blitSub.
C7_SubSpriteStrideCheck ==
    (pc = "done" /\ args.fn = "sub_sprite") =>
        LET wx   == AddU32(U32(args.width), U32(args.src_x))
            hy   == AddU32(U32(args.height), U32(args.src_y))
            hys  == MulU32(hy.v, U32(args.stride))
            need == AddU32(wx.v, hys.v)
            over == wx.of \/ hy.of \/ hys.of \/ need.of
            fits == LeU32(need.v, U32(PixelsHeld))
        IN  /\ Called("blitSub") <=> (fits /\ ~(over /\ overflow_checks))
            /\ ~Called("blitSub") => (halted /\ host[1].fn = "traceUtf8")
            /\ Called("blitSub") => (~halted /\ Len(host) = 1)
            /\ SmallArgs =>
                  (Called("blitSub") <=>
                      (args.width + args.src_x)
                        + ((args.height + args.src_y) * args.stride)
                            <= PixelsHeld)

C7_Witness ==
    /\ pc = "done"
    /\ args.fn = "sub_sprite"
    /\ Called("blitSub")
    /\ args.src_x = 1
    /\ args.src_y = 1
    /\ args.stride = 2
    /\ args.width = 2
    /\ args.height = 2
    /\ PixelsHeld = 16

-----------------------------------------------------------------------------
(* DrawColors::set_1 .. set_4 and set_all *)

\* enum DrawColor as u16
DrawColor == 0 .. 4

\* What a slot may hold before a call: the host may have written any nibble
PriorSlots == {0, 1, 2, 4, 9, 15}

InitDraw ==
    /\ NoLife
    /\ draw_colors \in {a + 16 * b + 256 * c + 4096 * d :
                           a, b, c, d \in PriorSlots}
    /\ buf = NotModelled
    /\ args = [k |-> 0, v |-> 0]
    /\ prior = draw_colors
    /\ pc = "call"
    /\ host = NotModelled
    /\ halted = FALSE
    /\ overflow_checks = NotModelled
    /\ ret = NotModelled

SetSlot(new) ==
    /\ pc = "call"
    /\ draw_colors' = new
    /\ prior' = draw_colors
    /\ pc' = "done"
    /\ UNCHANGED <<lifeVars, buf, host, halted, overflow_checks, ret>>

Set1 ==
    \E v \in DrawColor :
        /\ args' = [k |-> 1, v |-> v]
        /\ SetSlot(set_1(draw_colors, v))

Set2 ==
    \E v \in DrawColor :
        /\ args' = [k |-> 2, v |-> v]
        /\ SetSlot(set_2(draw_colors, v))

Set3 ==
    \E v \in DrawColor :
        /\ args' = [k |-> 3, v |-> v]
        /\ SetSlot(set_3(draw_colors, v))

Set4 ==
    \E v \in DrawColor :
        /\ args' = [k |-> 4, v |-> v]
        /\ SetSlot(set_4(draw_colors, v))

NextDraw ==
    \/ Set1
    \/ Set2
    \/ Set3
    \/ Set4

SpecDraw == InitDraw /\ [][NextDraw]_vars

\* C8: set_k(v) makes slot k's 4-bit field v and leaves the 4-bit fields of
\* the other three slots as they were before the call.
C8_SetSlotFrame ==
    (pc = "done" /\ args.k \in 1 .. 4) =>
        /\ Slot(draw_colors, args.k) = args.v
        /\ \A j \in (1 .. 4) \ {args.k} :
              Slot(draw_colors, j) = Slot(prior, j)
        /\ draw_colors \in 0 .. 65535

C8_Witness ==
    /\ pc = "done"
    /\ args = [k |-> 2, v |-> 3]
    /\ Slot(prior, 1) = 15
    /\ Slot(prior, 2) = 9
    /\ Slot(prior, 3) = 4
    /\ Slot(prior, 4) = 15
    /\ draw_colors = 15 + 16 * 3 + 256 * 4 + 4096 * 15

-----------------------------------------------------------------------------
(* SoundSystem::play *)

EnvelopeBytes == {1, 2, 3, 255}
VolumeBytes == {0, 50, 200}

\* enum DutyCycle as u32
DutyCycle == 0 .. 3

\* enum Channel
Channels ==
    [kind : {"Pulse1", "Pulse2"}, dc : DutyCycle]
        \cup [kind : {"Triangle", "Noise"}, dc : {0}]

\* Channel::to_num
to_num_Pulse2AsPulse1(channel) ==
    CASE channel.kind = "Pulse1" -> Shl16(channel.dc, 2)
      [] channel.kind = "Pulse2" -> Shl16(channel.dc, 2)
      [] channel.kind = "Triangle" -> 2
      [] channel.kind = "Noise" -> 3

to_num(channel) ==
    CASE channel.kind = "Pulse1" -> Shl16(channel.dc, 2)
      [] channel.kind = "Pulse2" -> BitOr(Shl16(channel.dc, 2), 1)
      [] channel.kind = "Triangle" -> 2
      [] channel.kind = "Noise" -> 3

\* SoundSystem::play: the call of tone it makes
play(sound) ==
    [fn        |-> "tone",
     frequency |-> <<sound.end_freq, sound.start_freq>>,
     duration  |-> from_le_bytes(<<sound.sustain, sound.release,
                                   sound.decay, sound.attack>>),
     volume    |-> from_le_bytes(<<sound.sustain_vol, sound.peak_vol, 0, 0>>),
     flags     |-> to_num(sound.channel)]

Sounds ==
    [start_freq : {440, 65535}, end_freq : {0, 880},
     attack : EnvelopeBytes, decay : EnvelopeBytes, sustain : EnvelopeBytes,
     release : EnvelopeBytes, peak_vol : VolumeBytes,
     sustain_vol : VolumeBytes, channel : Channels]

InitSound ==
    /\ NoLife
    /\ draw_colors = NotModelled
    /\ buf = NotModelled
    /\ args \in Sounds
    /\ host = <<>>
    /\ halted = FALSE
    /\ overflow_checks = NotModelled
    /\ pc = "call"
    /\ prior = NotModelled
    /\ ret = NotModelled

Play ==
    /\ pc = "call"
    /\ host' = Append(host, play(args))
    /\ pc' = "done"
    /\ UNCHANGED <<lifeVars, draw_colors, buf, halted, overflow_checks, args,
                   prior, ret>>

NextSound == Play

SpecSound == InitSound /\ [][NextSound]_vars

\* C9: play calls tone once, with a duration word whose little-endian bytes
\* are [sustain, release, decay, attack], a volume word whose bytes are
\* [sustain_vol, peak_vol, 0, 0], and flags (duty_cycle << 2) | channel_bit
\* for Pulse1 (bit 0) and Pulse2 (bit 1), 2 for Triangle and 3 for Noise.
C9_ToneEncoding ==
    pc = "done" =>
        /\ Len(host) = 1
        /\ host[1].fn = "tone"
        /\ to_le_bytes(host[1].duration)
              = <<args.sustain, args.release, args.decay, args.attack>>
        /\ to_le_bytes(host[1].volume)
              = <<args.sustain_vol, args.peak_vol, 0, 0>>
        /\ host[1].flags =
              CASE args.channel.kind = "Pulse1" -> args.channel.dc * 4
                [] args.channel.kind = "Pulse2" -> args.channel.dc * 4 + 1
                [] args.channel.kind = "Triangle" -> 2
                [] args.channel.kind = "Noise" -> 3

C9_Witness ==
    /\ pc = "done"
    /\ args.attack = 1
    /\ args.decay = 2
    /\ args.sustain = 3
    /\ args.release = 255
    /\ args.peak_vol = 200
    /\ args.sustain_vol = 50
    /\ args.channel = [kind |-> "Pulse2", dc |-> 3]
    /\ host[1].duration = <<2 + 256 * 1, 3 + 256 * 255>>
    /\ host[1].volume = <<0, 50 + 256 * 200>>
    /\ host[1].flags = 13

-----------------------------------------------------------------------------
(* Color::from_u32 and Color::to_u32 *)

ColorBytes == {0, 1, 127, 128, 255}

\* Color::from_u32: let [b, g, r, _] = x.to_le_bytes()
from_u32_RedFirst(x) ==
    LET bytes == to_le_bytes(x)
    IN  [r |-> bytes[1], g |-> bytes[2], b |-> bytes[3]]

from_u32(x) ==
    LET bytes == to_le_bytes(x)
    IN  [r |-> bytes[3], g |-> bytes[2], b |-> bytes[1]]

\* Color::to_u32
to_u32(self) == from_le_bytes(<<self.b, self.g, self.r, 0>>)

InitColor ==
    /\ NoLife
    /\ draw_colors = NotModelled
    /\ buf = NotModelled
    /\ \E b0, b1, b2, b3 \in ColorBytes :
          args = from_le_bytes(<<b0, b1, b2, b3>>)
    /\ host = NotModelled
    /\ halted = FALSE
    /\ overflow_checks = NotModelled
    /\ pc = "call"
    /\ prior = NotModelled
    /\ ret = NotModelled

\* Color::from_u32(c)
FromU32 ==
    /\ pc = "call"
    /\ prior' = from_u32(args)
    /\ pc' = "color"
    /\ UNCHANGED <<lifeVars, draw_colors, buf, host, halted, overflow_checks,
                   args, ret>>

\* Color::to_u32 of the color made
ToU32 ==
    /\ pc = "color"
    /\ ret' = to_u32(prior)
    /\ pc' = "done"
    /\ UNCHANGED <<lifeVars, draw_colors, buf, host, halted, overflow_checks,
                   args, prior>>

NextColor ==
    \/ FromU32
    \/ ToU32

SpecColor == InitColor /\ [][NextColor]_vars

\* C10: to_u32(from_u32(c)) is c with its most significant byte cleared: the
\* top byte of the result is 0, and a c of at most 0xFFFFFF comes back as c.
C10_ColorRoundTrip ==
    pc = "done" =>
        /\ ret = <<args[1] % 256, args[2]>>
        /\ ret[1] \div 256 = 0
        /\ args[1] < 256 => ret = args
        /\ to_le_bytes(ret)
              = <<to_le_bytes(args)[1], to_le_bytes(args)[2],
                  to_le_bytes(args)[3], 0>>

C10_Witness ==
    /\ pc = "done"
    /\ args = <<255 * 256 + 128, 1 * 256 + 127>>
    /\ ret = <<128, 1 * 256 + 127>>

====
